---- MODULE Spec2Model ----
(***************************************************************************)
(* Model of the Casper FFG justification/finalization processor of        *)
(* beacon/src/components/mod.rs (JustificationProcessor::advance_epoch).  *)
(*                                                                         *)
(* The processor is single-threaded: advance_epoch is one atomic step.    *)
(* The caller advances once per epoch; every call passes                  *)
(* current_checkpoint of the next epoch and previous_checkpoint of the    *)
(* epoch before it.  The registry is an input: its three answers (the     *)
(* total active balance and the two attesting target balances, each of    *)
(* which may be an Err) are drawn from small sets.                        *)
(***************************************************************************)
EXTENDS Integers, Sequences, FiniteSets, TLC

VARIABLES
    justification_bits,             \* [bool; 4], index 1 is bits[0] of the code
    current_justified_checkpoint,
    previous_justified_checkpoint,
    finalized_checkpoint,
    overflow_checks,                \* build profile: TRUE = `*` panics on overflow, FALSE = wraps
    epoch,                          \* current_checkpoint.epoch() of the last call
    ret,                            \* what the last call returned
    obs,                            \* what the last call did: lookups made, vote tests passed
    idle_run,                       \* consecutive successful calls, up to now, with no vote test passing
    run_start_finalized,            \* finalized_checkpoint before the first call of that run
    only_current,                   \* every call so far succeeded with only the current-epoch test passing
    vote,                           \* one vote test taken alone: its operands and its outcome
    db,                             \* RocksBackend: the database behind Arc<DB>
    head,                           \* RocksBackend: the identifier in Arc<RwLock<B::Identifier>>
    head_lock,                      \* the thread holding the write lock of head, if any
    commits,                        \* per thread: the commit call in progress
    n_commits,                      \* commit calls made so far
    genesis,                        \* RocksBackend: the identifier in Arc<B::Identifier>
    reported_head,                  \* the new head the last successful settlement.commit() reported
    opened,                         \* the last call that opened the store, and how many were made
    codec,                          \* a packed boolean vector being encoded or decoded
    hdr,                            \* a beacon block and the header made or encoded from it
    enm                             \* a derived enum value being encoded or decoded

ffg_vars == <<justification_bits, current_justified_checkpoint,
              previous_justified_checkpoint, finalized_checkpoint,
              overflow_checks, epoch, ret, obs, idle_run, run_start_finalized,
              only_current>>

store_vars == <<db, head, head_lock, commits, n_commits, genesis, reported_head, opened>>

codec_vars == <<codec, hdr, enm>>

vars == <<ffg_vars, vote, store_vars, codec_vars>>

\* The value of a variable that belongs to another specification than the
\* one being checked.
Off == [stage |-> "off"]

(***************************************************************************)
(* Bounds                                                                  *)
(***************************************************************************)
MaxEpoch == 6       \* the caller stops after this epoch
NumRoots == 2       \* distinct block roots a checkpoint of one epoch may carry
MaxIdleRun == 4     \* idle_run stops counting here

Roots == 1..NumRoots
Epochs == 0..MaxEpoch

(***************************************************************************)
(* type Epoch = u64; type Balance = u64.                                    *)
(* A u64 is four 16-bit limbs, least significant first, so that the        *)
(* products of the vote tests keep their 64-bit width.                     *)
(***************************************************************************)
LimbBase == 65536

U64(l0, l1, l2, l3) == <<l0, l1, l2, l3>>

\* u64 multiplication by a small constant: the low 64 bits and whether the
\* mathematical product needed more.
MulU64(x, k) ==
    LET p0 == x[1] * k
        p1 == x[2] * k + (p0 \div LimbBase)
        p2 == x[3] * k + (p1 \div LimbBase)
        p3 == x[4] * k + (p2 \div LimbBase)
    IN  [val |-> <<p0 % LimbBase, p1 % LimbBase, p2 % LimbBase, p3 % LimbBase>>,
         overflow |-> (p3 \div LimbBase) # 0]

\* x >= y on u64
GeU64(x, y) ==
    IF x[4] # y[4] THEN x[4] > y[4]
    ELSE IF x[3] # y[3] THEN x[3] > y[3]
    ELSE IF x[2] # y[2] THEN x[2] > y[2]
    ELSE x[1] >= y[1]

\* The balances the registry answers with.  Against a total of 3 an attesting
\* balance of 0 fails the test, 2 meets it with equality, and 2^63 is a value
\* whose product by 3 does not fit in 64 bits.
TotalBalances == { U64(3, 0, 0, 0) }
AttestingBalances == { U64(0, 0, 0, 0), U64(2, 0, 0, 0), U64(0, 0, 0, 32768) }

Errors == {"RegistryError1", "RegistryError2"}

\* Result<Balance, Error>
OkBalance(b) == [tag |-> "Ok", bal |-> b, err |-> "-"]
ErrBalance(e) == [tag |-> "Err", bal |-> U64(0, 0, 0, 0), err |-> e]
BalanceResults ==
    {OkBalance(b) : b \in AttestingBalances} \cup {ErrBalance(e) : e \in Errors}

\* A registry as advance_epoch sees it: total_active_balance() and
\* attesting_target_balance(previous_checkpoint / current_checkpoint).
Registries ==
    [total_active_balance : TotalBalances,
     attesting_previous : BalanceResults,
     attesting_current : BalanceResults]

Checkpoint(e, r) == [epoch |-> e, root |-> r]
Checkpoints == {Checkpoint(e, r) : e \in Epochs, r \in Roots}

(***************************************************************************)
(* JustificationProcessor<C>                                               *)
(***************************************************************************)
Processor(bits, cj, pj, fin) ==
    [justification_bits |-> bits,
     current_justified_checkpoint |-> cj,
     previous_justified_checkpoint |-> pj,
     finalized_checkpoint |-> fin]

\* Variant: the two justified checkpoints are swapped instead of the current
\* one being copied over the previous one.
ShiftPrevious_Swapped(self) ==
    [self EXCEPT !.previous_justified_checkpoint = self.current_justified_checkpoint,
                 !.current_justified_checkpoint = self.previous_justified_checkpoint]

\* self.previous_justified_checkpoint = self.current_justified_checkpoint.clone();
ShiftPrevious(self) ==
    [self EXCEPT !.previous_justified_checkpoint = self.current_justified_checkpoint]

\* Variant: the bits are shifted but bits[0] is not cleared.
RotateBits_KeepsBitZero(bits) ==
    <<bits[1], bits[1], bits[2], bits[3]>>

\* self.justification_bits[1..].copy_from_slice(&old[0..len - 1]);
\* self.justification_bits[0] = false;
RotateBits(bits) ==
    <<FALSE, bits[1], bits[2], bits[3]>>

\* x * k on u64 under the build's overflow behaviour
CheckedMul(x, k, checks) ==
    LET m == MulU64(x, k)
    IN  IF m.overflow /\ checks THEN [tag |-> "Panic", val |-> m.val]
        ELSE [tag |-> "Ok", val |-> m.val]

\* registry.attesting_target_balance(&checkpoint)? * 3 >= registry.total_active_balance() * 2
\* (registry is a shared borrow: both tests of a call see the same total.)
\* The operands are evaluated left to right: the lookup and its `?`, the
\* product by 3, then the product by 2, then the comparison.
VoteTest(attesting, total, checks) ==
    IF attesting.tag = "Err" THEN [tag |-> "Err", err |-> attesting.err]
    ELSE LET lhs == CheckedMul(attesting.bal, 3, checks)
             rhs == CheckedMul(total, 2, checks)
         IN  IF lhs.tag = "Panic" \/ rhs.tag = "Panic" THEN [tag |-> "Panic", err |-> "-"]
             ELSE IF GeU64(lhs.val, rhs.val) THEN [tag |-> "Pass", err |-> "-"]
             ELSE [tag |-> "Fail", err |-> "-"]

\* self.current_justified_checkpoint = previous_checkpoint; self.justification_bits[1] = true;
JustifyPrevious(self, previous_checkpoint) ==
    [self EXCEPT !.current_justified_checkpoint = previous_checkpoint,
                 !.justification_bits = [@ EXCEPT ![2] = TRUE]]

\* self.current_justified_checkpoint = current_checkpoint; self.justification_bits[0] = true;
JustifyCurrent(self, current_checkpoint) ==
    [self EXCEPT !.current_justified_checkpoint = current_checkpoint,
                 !.justification_bits = [@ EXCEPT ![1] = TRUE]]

\* bits[lo..hi].iter().all(|v| *v), with the code's 0-based half-open range
AllBits(bits, lo, hi) == \A i \in lo..(hi - 1) : bits[i + 1]

\* The 2nd/3rd/4th most recent epochs are justified, the 2nd using the 4th as source
FF1(self, bits, old_previous_justified_checkpoint, current_epoch) ==
    IF AllBits(bits, 1, 4) /\ old_previous_justified_checkpoint.epoch + 3 = current_epoch
    THEN [self EXCEPT !.finalized_checkpoint = old_previous_justified_checkpoint]
    ELSE self

\* Variant: FF-2 without its epoch condition.
FF2_NoEpochCheck(self, bits, old_previous_justified_checkpoint, current_epoch) ==
    IF AllBits(bits, 1, 3)
    THEN [self EXCEPT !.finalized_checkpoint = old_previous_justified_checkpoint]
    ELSE self

\* The 2nd/3rd most recent epochs are justified, the 2nd using the 3rd as source
FF2(self, bits, old_previous_justified_checkpoint, current_epoch) ==
    IF AllBits(bits, 1, 3) /\ old_previous_justified_checkpoint.epoch + 2 = current_epoch
    THEN [self EXCEPT !.finalized_checkpoint = old_previous_justified_checkpoint]
    ELSE self

\* The 1st/2nd/3rd most recent epochs are justified, the 1st using the 3rd as source
FF3(self, bits, old_current_justified_checkpoint, current_epoch) ==
    IF AllBits(bits, 0, 3) /\ old_current_justified_checkpoint.epoch + 2 = current_epoch
    THEN [self EXCEPT !.finalized_checkpoint = old_current_justified_checkpoint]
    ELSE self

\* Variant: FF-4 finalizes the current justified checkpoint as the vote tests
\* left it instead of the one snapshotted before the call.
FF4_UsesNewJustified(self, bits, old_current_justified_checkpoint, current_epoch) ==
    IF AllBits(bits, 0, 2) /\ old_current_justified_checkpoint.epoch + 1 = current_epoch
    THEN [self EXCEPT !.finalized_checkpoint = self.current_justified_checkpoint]
    ELSE self

\* The 1st/2nd most recent epochs are justified, the 1st using the 2nd as source
FF4(self, bits, old_current_justified_checkpoint, current_epoch) ==
    IF AllBits(bits, 0, 2) /\ old_current_justified_checkpoint.epoch + 1 = current_epoch
    THEN [self EXCEPT !.finalized_checkpoint = old_current_justified_checkpoint]
    ELSE self

\* Variant: the first rule whose condition holds decides, the later ones are
\* skipped.
ProcessFinalizations_FirstMatch(self, old_previous_justified_checkpoint, old_current_justified_checkpoint, current_epoch) ==
    LET bits == self.justification_bits
        f1 == FF1(self, bits, old_previous_justified_checkpoint, current_epoch)
        f2 == FF2(self, bits, old_previous_justified_checkpoint, current_epoch)
        f3 == FF3(self, bits, old_current_justified_checkpoint, current_epoch)
    IN  IF f1 # self THEN f1
        ELSE IF f2 # self THEN f2
        ELSE IF f3 # self THEN f3
        ELSE FF4(self, bits, old_current_justified_checkpoint, current_epoch)

\* // Process finalizations
ProcessFinalizations(self, old_previous_justified_checkpoint, old_current_justified_checkpoint, current_epoch) ==
    LET bits == self.justification_bits
        f1 == FF1(self, bits, old_previous_justified_checkpoint, current_epoch)
        f2 == FF2(f1, bits, old_previous_justified_checkpoint, current_epoch)
        f3 == FF3(f2, bits, old_current_justified_checkpoint, current_epoch)
    IN  FF4(f3, bits, old_current_justified_checkpoint, current_epoch)

\* What a call did: how many balance lookups it made, the error the registry
\* answered the last of them with ("-" if none), which vote tests passed.
Observed(lookups, lookup_error, previous_passed, current_passed) ==
    [lookups |-> lookups, lookup_error |-> lookup_error,
     previous_passed |-> previous_passed, current_passed |-> current_passed]

Returned(tag, err) == [tag |-> tag, err |-> err]

\* Variant: the finalization rules are applied as soon as the first lookup
\* succeeded, before the second lookup can return its error.
advance_epoch_FinalizesBeforeSecondLookup(self, previous_checkpoint, current_checkpoint, registry, checks) ==
    LET current_epoch == current_checkpoint.epoch
        old_previous_justified_checkpoint == self.previous_justified_checkpoint
        old_current_justified_checkpoint == self.current_justified_checkpoint
        shifted == ShiftPrevious(self)
        rotated == [shifted EXCEPT !.justification_bits = RotateBits(self.justification_bits)]
        t1 == VoteTest(registry.attesting_previous, registry.total_active_balance, checks)
        s1 == IF t1.tag = "Pass" THEN JustifyPrevious(rotated, previous_checkpoint) ELSE rotated
        t2 == VoteTest(registry.attesting_current, registry.total_active_balance, checks)
        s2 == IF t2.tag = "Pass" THEN JustifyCurrent(s1, current_checkpoint) ELSE s1
    IN  IF t1.tag \in {"Err", "Panic"}
        THEN [self |-> rotated, ret |-> Returned(t1.tag, t1.err),
              obs |-> Observed(1, registry.attesting_previous.err, FALSE, FALSE)]
        ELSE IF t2.tag \in {"Err", "Panic"}
        THEN [self |-> ProcessFinalizations(s1, old_previous_justified_checkpoint,
                                            old_current_justified_checkpoint, current_epoch),
              ret |-> Returned(t2.tag, t2.err),
              obs |-> Observed(2, registry.attesting_current.err, t1.tag = "Pass", FALSE)]
        ELSE [self |-> ProcessFinalizations(s2, old_previous_justified_checkpoint,
                                            old_current_justified_checkpoint, current_epoch),
              ret |-> Returned("Ok", "-"),
              obs |-> Observed(2, "-", t1.tag = "Pass", t2.tag = "Pass")]

\* advance_epoch(&mut self, previous_checkpoint, current_checkpoint, registry):
\* the processor as the call leaves it, the value returned ("Ok", "Err" with
\* the registry's error, or "Panic" when a product overflows in a build with
\* overflow checks) and what the call did.
advance_epoch(self, previous_checkpoint, current_checkpoint, registry, checks) ==
    LET current_epoch == current_checkpoint.epoch
        old_previous_justified_checkpoint == self.previous_justified_checkpoint
        old_current_justified_checkpoint == self.current_justified_checkpoint
        shifted == ShiftPrevious(self)
        rotated == [shifted EXCEPT !.justification_bits = RotateBits(self.justification_bits)]
        t1 == VoteTest(registry.attesting_previous, registry.total_active_balance, checks)
        s1 == IF t1.tag = "Pass" THEN JustifyPrevious(rotated, previous_checkpoint) ELSE rotated
        t2 == VoteTest(registry.attesting_current, registry.total_active_balance, checks)
        s2 == IF t2.tag = "Pass" THEN JustifyCurrent(s1, current_checkpoint) ELSE s1
    IN  IF t1.tag \in {"Err", "Panic"}
        THEN [self |-> rotated, ret |-> Returned(t1.tag, t1.err),
              obs |-> Observed(1, registry.attesting_previous.err, FALSE, FALSE)]
        ELSE IF t2.tag \in {"Err", "Panic"}
        THEN [self |-> s1, ret |-> Returned(t2.tag, t2.err),
              obs |-> Observed(2, registry.attesting_current.err, t1.tag = "Pass", FALSE)]
        ELSE [self |-> ProcessFinalizations(s2, old_previous_justified_checkpoint,
                                            old_current_justified_checkpoint, current_epoch),
              ret |-> Returned("Ok", "-"),
              obs |-> Observed(2, "-", t1.tag = "Pass", t2.tag = "Pass")]

(***************************************************************************)
(* The state machine                                                       *)
(***************************************************************************)
Self ==
    Processor(justification_bits, current_justified_checkpoint,
              previous_justified_checkpoint, finalized_checkpoint)

\* The processor is created with a genesis checkpoint: all bits false, all
\* three checkpoints equal.
Init ==
    /\ \E r \in Roots :
          /\ current_justified_checkpoint = Checkpoint(0, r)
          /\ previous_justified_checkpoint = Checkpoint(0, r)
          /\ finalized_checkpoint = Checkpoint(0, r)
    /\ justification_bits = <<FALSE, FALSE, FALSE, FALSE>>
    /\ overflow_checks \in BOOLEAN
    /\ epoch = 0
    /\ ret = Returned("None", "-")
    /\ obs = Observed(0, "-", FALSE, FALSE)
    /\ idle_run = 0
    /\ run_start_finalized = finalized_checkpoint
    /\ only_current = TRUE
    /\ vote = Off
    /\ db = Off /\ head = Off /\ head_lock = Off /\ commits = Off /\ n_commits = Off
    /\ genesis = Off /\ reported_head = Off /\ opened = Off
    /\ codec = Off /\ hdr = Off /\ enm = Off

\* One call of advance_epoch at the next epoch boundary.
AdvanceEpoch ==
    /\ epoch < MaxEpoch
    /\ \E rp \in Roots, rc \in Roots, registry \in Registries :
          \E out \in {advance_epoch(Self, Checkpoint(epoch, rp), Checkpoint(epoch + 1, rc),
                                      registry, overflow_checks)} :
          \E idle \in {out.ret.tag = "Ok" /\ ~out.obs.previous_passed
                                          /\ ~out.obs.current_passed} :
              /\ justification_bits' = out.self.justification_bits
              /\ current_justified_checkpoint' = out.self.current_justified_checkpoint
              /\ previous_justified_checkpoint' = out.self.previous_justified_checkpoint
              /\ finalized_checkpoint' = out.self.finalized_checkpoint
              /\ epoch' = epoch + 1
              /\ ret' = out.ret
              /\ obs' = out.obs
              /\ idle_run' = IF ~idle THEN 0
                             ELSE IF idle_run < MaxIdleRun THEN idle_run + 1
                             ELSE idle_run
              /\ run_start_finalized' =
                    IF ~idle THEN out.self.finalized_checkpoint
                    ELSE IF idle_run > 0 THEN run_start_finalized
                    ELSE finalized_checkpoint
              /\ only_current' = (only_current /\ out.ret.tag = "Ok"
                                  /\ ~out.obs.previous_passed /\ out.obs.current_passed)
    /\ UNCHANGED overflow_checks
    /\ UNCHANGED <<vote, store_vars, codec_vars>>

Next == AdvanceEpoch

Spec == Init /\ [][Next]_vars

(***************************************************************************)
(* The vote test taken alone, over the whole range of u64 balances         *)
(***************************************************************************)
\* The processor is not in use in the specifications of the other components.
FfgOff ==
    /\ justification_bits = <<FALSE, FALSE, FALSE, FALSE>>
    /\ current_justified_checkpoint = Checkpoint(0, 1)
    /\ previous_justified_checkpoint = Checkpoint(0, 1)
    /\ finalized_checkpoint = Checkpoint(0, 1)
    /\ overflow_checks = FALSE
    /\ epoch = 0
    /\ ret = Returned("None", "-")
    /\ obs = Observed(0, "-", FALSE, FALSE)
    /\ idle_run = 0
    /\ run_start_finalized = Checkpoint(0, 1)
    /\ only_current = TRUE

\* Balances across the u64 range: 0, 1, 2, 3, 0x5555555555555555 (the largest
\* whose triple fits), 0x5555555555555556, 0x6000000000000000, 2^63 - 1,
\* 2^63 and 2^64 - 1.
VoteBalances ==
    { U64(0, 0, 0, 0), U64(1, 0, 0, 0), U64(2, 0, 0, 0), U64(3, 0, 0, 0),
      U64(21845, 21845, 21845, 21845), U64(21846, 21845, 21845, 21845),
      U64(0, 0, 0, 24576), U64(65535, 65535, 65535, 32767),
      U64(0, 0, 0, 32768), U64(65535, 65535, 65535, 65535) }

\* x < 2^63
Fits63(x) == x[4] < 32768

\* x * k in unbounded integers, as five limbs
MulWide(x, k) ==
    LET p0 == x[1] * k
        p1 == x[2] * k + (p0 \div LimbBase)
        p2 == x[3] * k + (p1 \div LimbBase)
        p3 == x[4] * k + (p2 \div LimbBase)
    IN  <<p0 % LimbBase, p1 % LimbBase, p2 % LimbBase, p3 % LimbBase, p3 \div LimbBase>>

\* x >= y on five limbs
GeWide(x, y) ==
    IF x[5] # y[5] THEN x[5] > y[5] ELSE GeU64(SubSeq(x, 1, 4), SubSeq(y, 1, 4))

StoreOff ==
    /\ db = Off /\ head = Off /\ head_lock = Off /\ commits = Off /\ n_commits = Off
    /\ genesis = Off /\ reported_head = Off /\ opened = Off

InitVote ==
    /\ FfgOff
    /\ StoreOff
    /\ codec = Off /\ hdr = Off /\ enm = Off
    /\ \E a \in VoteBalances, t \in VoteBalances, checks \in BOOLEAN :
          vote = [stage |-> "input", attesting |-> a, total |-> t,
                  checks |-> checks, outcome |-> "-"]

\* One evaluation of
\* registry.attesting_target_balance(&checkpoint)? * 3 >= registry.total_active_balance() * 2
\* with the lookup answering Ok(attesting).
EvaluateVote ==
    /\ vote.stage = "input"
    /\ vote' = [vote EXCEPT !.stage = "done",
                            !.outcome = VoteTest(OkBalance(vote.attesting), vote.total,
                                                 vote.checks).tag]
    /\ UNCHANGED <<ffg_vars, store_vars, codec_vars>>

NextVote == EvaluateVote

SpecVote == InitVote /\ [][NextVote]_vars

\* C11: for balances below 2^63 a vote test gives the result of
\* 3 * attesting >= 2 * total computed in unbounded integers (no product
\* overflows or wraps).
C11_VoteTestMatchesUnbounded ==
    (vote.stage = "done" /\ Fits63(vote.attesting) /\ Fits63(vote.total)) =>
        vote.outcome = IF GeWide(MulWide(vote.attesting, 3), MulWide(vote.total, 2))
                       THEN "Pass" ELSE "Fail"

\* C21: after a successful call current_justified_checkpoint is
\* current_checkpoint if the current-epoch test passed, else
\* previous_checkpoint if the previous-epoch test passed, else its old value;
\* bits[1] is true exactly if the previous-epoch test passed or bits[0] was
\* true before the call; bits[0] is true exactly if the current-epoch test
\* passed; and a test passes exactly when
\* 3 * attesting_target_balance >= 2 * total_active_balance.
C21_VoteTests ==
    [][/\ ret'.tag = "Ok" =>
            /\ current_justified_checkpoint'.epoch =
                  IF obs'.current_passed THEN epoch'
                  ELSE IF obs'.previous_passed THEN epoch' - 1
                  ELSE current_justified_checkpoint.epoch
            /\ (~obs'.current_passed /\ ~obs'.previous_passed)
                  => current_justified_checkpoint' = current_justified_checkpoint
            /\ justification_bits'[2] <=> (obs'.previous_passed \/ justification_bits[1])
            /\ justification_bits'[1] <=> obs'.current_passed
       /\ (vote'.stage = "done" /\ vote'.outcome \in {"Pass", "Fail"}) =>
            ((vote'.outcome = "Pass")
                <=> GeWide(MulWide(vote'.attesting, 3), MulWide(vote'.total, 2)))]_vars

(***************************************************************************)
(* Properties of advance_epoch                                             *)
(***************************************************************************)
Succeeded == ret.tag = "Ok"

\* C1: if the first balance lookup of advance_epoch returns an error, the
\* call returns that same error and leaves the four fields of the processor
\* exactly as they were before the call.
C1_FirstLookupErrorLeavesStateUnmodified ==
    [][(ret'.tag = "Err" /\ obs'.lookups = 1) =>
          /\ ret'.err = obs'.lookup_error
          /\ justification_bits' = justification_bits
          /\ current_justified_checkpoint' = current_justified_checkpoint
          /\ previous_justified_checkpoint' = previous_justified_checkpoint
          /\ finalized_checkpoint' = finalized_checkpoint]_vars

\* C2 as stated: while every call passes only the current-epoch vote test,
\* the bits are [true,false,false,false] after each call and no call changes
\* finalized_checkpoint.
C2_OnlyCurrentNeverFinalizes ==
    [][only_current' =>
          /\ justification_bits' = <<TRUE, FALSE, FALSE, FALSE>>
          /\ finalized_checkpoint' = finalized_checkpoint]_vars

\* C2 amended: while every call passes only the current-epoch vote test,
\* after the k-th call bits[i] is true exactly for i < k (so the bits are
\* [true,false,false,false] after the first call only); the first call leaves
\* finalized_checkpoint unchanged and every later call sets it to the
\* checkpoint the call before it justified, of epoch E - 1 (rule FF-4).
C2_OnlyCurrentFinalizesPreviousEpoch ==
    [][only_current' =>
          /\ justification_bits' = [i \in 1..4 |-> i <= epoch']
          /\ IF epoch' = 1
             THEN finalized_checkpoint' = finalized_checkpoint
             ELSE /\ finalized_checkpoint' = current_justified_checkpoint
                  /\ finalized_checkpoint'.epoch = epoch' - 1]_vars

C2_Witness ==
    /\ only_current
    /\ epoch = 3
    /\ justification_bits = <<TRUE, TRUE, TRUE, FALSE>>
    /\ finalized_checkpoint.epoch = 2

\* C3: during a run of up to four consecutive successful calls in which
\* neither vote test passes, finalized_checkpoint keeps the value it had
\* before the first call of the run.
C3_IdleRunKeepsFinalized ==
    idle_run >= 1 => finalized_checkpoint = run_start_finalized

\* Four idle calls in a row, after a finalization beyond genesis.
C3_Witness ==
    /\ idle_run = 4
    /\ Succeeded
    /\ finalized_checkpoint.epoch >= 1

\* C4: a successful call never lowers finalized_checkpoint.epoch().
C4_FinalizedEpochNonDecreasing ==
    [][ret'.tag = "Ok" => finalized_checkpoint'.epoch >= finalized_checkpoint.epoch]_vars

\* A successful call after which an epoch beyond the first is finalized,
\* behind the previous justified one.
C4_Witness ==
    /\ Succeeded
    /\ finalized_checkpoint.epoch >= 2
    /\ finalized_checkpoint.epoch < previous_justified_checkpoint.epoch

\* C5: after every successful call,
\* finalized_checkpoint.epoch() <= previous_justified_checkpoint.epoch().
C5_FinalizedNotAfterPreviousJustified ==
    Succeeded => finalized_checkpoint.epoch <= previous_justified_checkpoint.epoch

\* A successful call that finalized the checkpoint it shifted into
\* previous_justified_checkpoint.
C5_Witness ==
    /\ Succeeded
    /\ finalized_checkpoint = previous_justified_checkpoint
    /\ finalized_checkpoint.epoch >= 1

\* C6: previous_justified_checkpoint.epoch() <= current_justified_checkpoint.epoch()
\* in every state reached from genesis.
C6_PreviousNotAfterCurrentJustified ==
    previous_justified_checkpoint.epoch <= current_justified_checkpoint.epoch

C6_Witness ==
    /\ Succeeded
    /\ previous_justified_checkpoint.epoch >= 1
    /\ previous_justified_checkpoint.epoch < current_justified_checkpoint.epoch

\* C7: a successful call never lowers previous_justified_checkpoint.epoch().
C7_PreviousJustifiedEpochNonDecreasing ==
    [][ret'.tag = "Ok" =>
          previous_justified_checkpoint'.epoch >= previous_justified_checkpoint.epoch]_vars

C7_Witness ==
    /\ Succeeded
    /\ epoch >= 2
    /\ previous_justified_checkpoint.epoch = epoch - 1

\* C8: after a successful call bits[0] is true only if the current-epoch vote
\* test passed in that call, and the array has exactly 4 entries.
C8_BitZeroOnlyIfCurrentVotePassed ==
    /\ DOMAIN justification_bits = 1..4
    /\ Succeeded => (justification_bits[1] => obs.current_passed)

\* A successful call whose current-epoch test failed, made on a processor
\* whose bits[0] was true (it is bits[1] now): bits[0] was cleared.
C8_Witness ==
    /\ Succeeded
    /\ ~obs.current_passed
    /\ ~obs.previous_passed
    /\ justification_bits[2]
    /\ ~justification_bits[1]

\* C9 (FF-4): a successful call with E = current_checkpoint.epoch() that ends
\* with bits[0] and bits[1] true, made while current_justified_checkpoint had
\* epoch E - 1, leaves finalized_checkpoint equal to that old
\* current_justified_checkpoint; and from genesis, a first call passing the
\* current-epoch test followed by a second call passing both tests leaves
\* finalized_checkpoint.epoch() = 1.
C9_FF4 ==
    [][ret'.tag = "Ok" =>
          /\ (justification_bits'[1] /\ justification_bits'[2]
                /\ current_justified_checkpoint.epoch + 1 = epoch')
              => finalized_checkpoint' = current_justified_checkpoint
          /\ (epoch = 1 /\ ret.tag = "Ok" /\ obs.current_passed
                /\ obs'.previous_passed /\ obs'.current_passed)
              => finalized_checkpoint'.epoch = 1]_vars

\* The scenario's end state: second call, both tests passed, epoch 1 finalized.
C9_Witness ==
    /\ epoch = 2
    /\ Succeeded
    /\ obs.previous_passed /\ obs.current_passed
    /\ previous_justified_checkpoint.epoch = 1
    /\ finalized_checkpoint = previous_justified_checkpoint

\* The checkpoint the last applicable rule selects, FF-4 first: conditions on
\* the final bits and on the justified checkpoints held before the call.
LastRule(bits, old_pj, old_cj, old_fin, E) ==
    IF bits[1] /\ bits[2] /\ old_cj.epoch + 1 = E THEN old_cj
    ELSE IF bits[1] /\ bits[2] /\ bits[3] /\ old_cj.epoch + 2 = E THEN old_cj
    ELSE IF bits[2] /\ bits[3] /\ old_pj.epoch + 2 = E THEN old_pj
    ELSE IF bits[2] /\ bits[3] /\ bits[4] /\ old_pj.epoch + 3 = E THEN old_pj
    ELSE old_fin

\* C10: after a successful call finalized_checkpoint is the checkpoint of the
\* last rule, in the order FF-1, FF-2, FF-3, FF-4, whose condition holds, and
\* is unchanged if none holds.
C10_LastMatchingRuleWins ==
    [][ret'.tag = "Ok" =>
          finalized_checkpoint' =
              LastRule(justification_bits', previous_justified_checkpoint,
                       current_justified_checkpoint, finalized_checkpoint, epoch')]_vars

\* A successful call in which FF-2 and FF-4 both applied, to different
\* checkpoints: all of bits[0..3] true, the old previous justified at E - 2
\* and the old current justified, which is finalized, at E - 1.
C10_Witness ==
    /\ Succeeded
    /\ epoch >= 3
    /\ justification_bits[1] /\ justification_bits[2] /\ justification_bits[3]
    /\ only_current
    /\ finalized_checkpoint.epoch = epoch - 1

\* C20: a successful call in which neither vote test passes leaves
\* justification_bits = [false, old[0], old[1], old[2]], makes
\* previous_justified_checkpoint the current_justified_checkpoint held before
\* the call, and leaves current_justified_checkpoint as it was.
C20_RotationAndShift ==
    [][(ret'.tag = "Ok" /\ ~obs'.previous_passed /\ ~obs'.current_passed) =>
          /\ justification_bits' = <<FALSE, justification_bits[1],
                                     justification_bits[2], justification_bits[3]>>
          /\ previous_justified_checkpoint' = current_justified_checkpoint
          /\ current_justified_checkpoint' = current_justified_checkpoint]_vars

\* After a call with no test passing on a processor whose bits[0] and bits[1]
\* were set and whose justified checkpoints differed: the bits moved up by
\* one and the previous justified checkpoint caught up with the current one.
C20_Witness ==
    /\ Succeeded
    /\ ~obs.previous_passed /\ ~obs.current_passed
    /\ idle_run = 1
    /\ justification_bits = <<FALSE, TRUE, TRUE, FALSE>>
    /\ previous_justified_checkpoint = current_justified_checkpoint
    /\ current_justified_checkpoint.epoch = 2

\* C22: whenever a call returns an error, from the first or from the second
\* balance lookup, finalized_checkpoint is what it was before the call; the
\* error is the one of the last lookup made, and after an error of the
\* first lookup no second one is made.
C22_ErrorKeepsFinalized ==
    [][ret'.tag = "Err" =>
          /\ finalized_checkpoint' = finalized_checkpoint
          /\ obs'.lookups \in {1, 2}
          /\ ret'.err = obs'.lookup_error
          /\ ~obs'.current_passed
          /\ obs'.lookups = 1 => ~obs'.previous_passed]_vars

\* The second lookup failed after the previous-epoch test had passed, with
\* bits[1] and bits[2] set and the previous justified checkpoint ahead of the
\* finalized one: a finalization rule had something to finalize.
C22_Witness ==
    /\ ret.tag = "Err"
    /\ obs.lookups = 2
    /\ obs.previous_passed
    /\ justification_bits[2] /\ justification_bits[3]
    /\ previous_justified_checkpoint.epoch > finalized_checkpoint.epoch

(***************************************************************************)
(* RocksBackend (blockchain/common/rocksdb/src/backend.rs): commit by      *)
(* several threads on clones of one backend.  Clones share db and head.    *)
(* The settlement (RocksSettlement) and Operation::settle are in other     *)
(* files; they are modelled as a staged write batch applied atomically.    *)
(***************************************************************************)
NumThreads == 2     \* threads holding a clone of the backend
NumBlocks == 2      \* block identifiers besides the genesis block
MaxCommits == 2     \* commit calls made in a behaviour

Threads == 1..NumThreads
GenesisId == 0
BlockIds == 0..NumBlocks
AuxKeys == {"k"}

\* Option<T>
None == <<>>
Some(x) == <<x>>

EmptyMap == [x \in {} |-> x]

\* f with the entries of g written over it
Overlay(f, g) ==
    [x \in DOMAIN f \cup DOMAIN g |-> IF x \in DOMAIN g THEN g[x] ELSE f[x]]

\* f without the keys in ks
Without(f, ks) == [x \in DOMAIN f \ ks |-> f[x]]

\* A record of the blocks column: {block, state_raw, depth, children, is_canon}
BlockData(parent, depth, children, is_canon) ==
    [parent |-> parent, depth |-> depth, children |-> children, is_canon |-> is_canon]

\* The store as open_or_create leaves it after creating it from a genesis
\* block: the block at depth 0, canonical, without children; depth 0 mapped
\* to it; head and genesis recorded.
GenesisDb ==
    [blocks |-> (GenesisId :> BlockData(None, 0, <<>>, TRUE)),
     canon |-> (0 :> GenesisId),
     aux |-> EmptyMap,
     head |-> Some(GenesisId),
     genesis |-> Some(GenesisId)]

\* RocksSettlement::new: an empty batch
NewSettlement ==
    [blocks |-> EmptyMap, canon |-> EmptyMap, canon_removed |-> {},
     aux |-> EmptyMap, head |-> None, genesis |-> None]

\* The identifiers from b back to the genesis block
RECURSIVE RouteToGenesis(_, _)
RouteToGenesis(blocks, b) ==
    IF blocks[b].parent = None THEN {b}
    ELSE {b} \cup RouteToGenesis(blocks, blocks[b].parent[1])

\* An operation: import block `block` as a child of `parent`, make it the
\* head or not, write an auxiliary or not.
Operations ==
    [block : BlockIds \ {GenesisId}, parent : BlockIds, set_head : BOOLEAN, put_aux : BOOLEAN]

\* operation.settle(&mut settlement): checks the operation against the
\* backend as it is now and stages its writes in the settlement.
Settle(store, op) ==
    IF op.parent \notin DOMAIN store.blocks \/ op.block \in DOMAIN store.blocks
    THEN [tag |-> "Err", settlement |-> NewSettlement]
    ELSE
    LET p == store.blocks[op.parent]
        child == BlockData(Some(op.parent), p.depth + 1, <<>>, FALSE)
        inserted == (op.block :> child)
                    @@ (op.parent :> [p EXCEPT !.children = Append(@, op.block)])
        all == Overlay(store.blocks, inserted)
        route == RouteToGenesis(all, op.block)
        recanon == [x \in {y \in DOMAIN all : all[y].is_canon # (y \in route)} |->
                       [all[x] EXCEPT !.is_canon = (x \in route)]]
    IN  [tag |-> "Ok",
         settlement |->
            [blocks |-> IF op.set_head THEN Overlay(inserted, recanon) ELSE inserted,
             canon |-> IF op.set_head
                       THEN [d \in {all[x].depth : x \in route} |->
                                CHOOSE x \in route : all[x].depth = d]
                       ELSE EmptyMap,
             canon_removed |-> IF op.set_head
                               THEN {d \in DOMAIN store.canon : d > child.depth}
                               ELSE {},
             aux |-> IF op.put_aux THEN [k \in AuxKeys |-> op.block] ELSE EmptyMap,
             head |-> IF op.set_head THEN Some(op.block) ELSE None,
             genesis |-> None]]

\* settlement.commit(): the batch is written as a whole or, on an I/O error,
\* not at all; Ok carries the new head if the settlement set one.
SettlementCommit(store, settlement, io_ok) ==
    IF ~io_ok THEN [tag |-> "Err", db |-> store, new_head |-> None]
    ELSE [tag |-> "Ok",
          db |-> [blocks |-> Overlay(store.blocks, settlement.blocks),
                  canon |-> Overlay(Without(store.canon, settlement.canon_removed),
                                    settlement.canon),
                  aux |-> Overlay(store.aux, settlement.aux),
                  head |-> IF settlement.head = None THEN store.head ELSE settlement.head,
                  genesis |-> IF settlement.genesis = None THEN store.genesis
                              ELSE settlement.genesis],
          new_head |-> settlement.head]

\* Variant: head is set from the settlement whatever settlement.commit() returned.
HeadAfterCommit_IgnoresError(head_value, settlement, committed) ==
    IF settlement.head # None THEN settlement.head[1] ELSE head_value

\* let new_head = settlement.commit()?;
\* if let Some(new_head) = new_head { *head = new_head; }
HeadAfterCommit(head_value, settlement, committed) ==
    IF committed.tag = "Ok" /\ committed.new_head # None
    THEN committed.new_head[1]
    ELSE head_value

Idle(returned, wrote) ==
    [pc |-> "idle", settlement |-> NewSettlement, committed |-> None,
     ret |-> returned, wrote |-> wrote]

InitCommit ==
    /\ FfgOff
    /\ vote = Off
    /\ codec = Off /\ hdr = Off /\ enm = Off
    /\ db = GenesisDb
    /\ head = GenesisId
    /\ head_lock = None
    /\ commits = [t \in Threads |-> Idle("None", FALSE)]
    /\ n_commits = 0
    /\ genesis = GenesisId
    /\ reported_head = GenesisId
    /\ opened = Off

\* let mut settlement = RocksSettlement::new(self);
\* operation.settle(&mut settlement)?;
CommitSettle(t) ==
    /\ commits[t].pc = "idle"
    /\ n_commits < MaxCommits
    /\ n_commits' = n_commits + 1
    /\ \E op \in Operations :
       \E res \in {Settle(db, op)} :
          commits' = [commits EXCEPT ![t] =
              IF res.tag = "Err" THEN Idle("ErrSettle", FALSE)
              ELSE [pc |-> "settled", settlement |-> res.settlement,
                    committed |-> None, ret |-> "None", wrote |-> FALSE]]
    /\ UNCHANGED <<db, head, head_lock, genesis, reported_head, opened>>

\* let mut head = self.head.write().expect("Lock is poisoned");
CommitLockHead(t) ==
    /\ commits[t].pc = "settled"
    /\ head_lock = None
    /\ head_lock' = Some(t)
    /\ commits' = [commits EXCEPT ![t].pc = "locked"]
    /\ UNCHANGED <<db, head, n_commits, genesis, reported_head, opened>>

\* let new_head = settlement.commit()?;   (an Err returns and drops the guard)
CommitWrite(t) ==
    /\ commits[t].pc = "locked"
    /\ \E io_ok \in BOOLEAN :
       \E res \in {SettlementCommit(db, commits[t].settlement, io_ok)} :
       \E h \in {IF res.tag = "Err"
                 THEN HeadAfterCommit(head, commits[t].settlement, res) ELSE head} :
          /\ db' = res.db
          /\ head' = h
          /\ head_lock' = IF res.tag = "Err" THEN None ELSE head_lock
          /\ commits' = [commits EXCEPT ![t] =
                IF res.tag = "Err" THEN Idle("ErrCommit", h # head)
                ELSE [@ EXCEPT !.pc = "written", !.committed = Some(res),
                               !.wrote = (res.db # db)]]
          /\ reported_head' = IF res.tag = "Ok" /\ res.new_head # None
                              THEN res.new_head[1] ELSE reported_head
    /\ UNCHANGED <<n_commits, genesis, opened>>

\* if let Some(new_head) = new_head { *head = new_head; }  Ok(())
CommitUpdateHead(t) ==
    /\ commits[t].pc = "written"
    /\ \E h \in {HeadAfterCommit(head, commits[t].settlement, commits[t].committed[1])} :
          /\ head' = h
          /\ commits' = [commits EXCEPT ![t] = Idle("Ok", commits[t].wrote \/ h # head)]
    /\ head_lock' = None
    /\ UNCHANGED <<db, n_commits, genesis, reported_head, opened>>

NextCommit ==
    \E t \in Threads :
        \/ CommitSettle(t)
        \/ CommitLockHead(t)
        \/ CommitWrite(t)
        \/ CommitUpdateHead(t)

SpecCommit == InitCommit /\ [][NextCommit /\ UNCHANGED <<ffg_vars, vote, codec_vars>>]_vars

\* C12: only one commit proceeds at a time: while one thread is between the
\* start and the end of a commit call, no other thread is.
C12_OneCommitAtATime ==
    Cardinality({t \in Threads : commits[t].pc # "idle"}) <= 1

C23_HeadIsLastReportedHead ==
    /\ head_lock = None => head = reported_head
    /\ genesis = GenesisId
    /\ DOMAIN db.blocks = {GenesisId} => head = GenesisId

\* Both commit calls are over: one moved head to a new block, the other staged
\* a head too but failed in settlement.commit().
C23_Witness ==
    /\ head_lock = None
    /\ head # GenesisId
    /\ n_commits = 2
    /\ \E t \in Threads : commits[t].pc = "idle" /\ commits[t].ret = "Ok"
    /\ \E t \in Threads : commits[t].pc = "idle" /\ commits[t].ret = "ErrCommit"
    /\ Cardinality(DOMAIN db.blocks) = 2

(***************************************************************************)
(* RocksBackend: opening a store (open_or_create, new_with_genesis,        *)
(* from_existing).  db is the store on disk, which outlives the backends   *)
(* opened on it; opened holds the last call and the backend it returned,   *)
(* if it returned one.                                                     *)
(***************************************************************************)
MaxOpens == 3       \* calls that open the store in a behaviour

\* A store nothing was written to
EmptyDb ==
    [blocks |-> EmptyMap, canon |-> EmptyMap, aux |-> EmptyMap, head |-> None, genesis |-> None]

\* fetch_head(&db)
FetchHead(store) == store.head

\* fetch_genesis(&db)
FetchGenesis(store) == store.genesis

\* lookup_canon_depth(depth)
LookupCanonDepth(store, depth) ==
    IF depth \in DOMAIN store.canon THEN Some(store.canon[depth]) ELSE None

\* A block as open_or_create looks at it: id() and parent_id()
Block(id, parent_id) == [id |-> id, parent_id |-> parent_id]

FOk(block) == [tag |-> "Ok", block |-> block]
FErr(e) == [tag |-> "Err", err |-> e]

\* What the closure f can return: a block without or with a parent, or an error
FResults ==
    {FOk(Block(g, None)) : g \in BlockIds}
        \cup {FOk(Block(1, Some(GenesisId)))}
        \cup {FErr("Corrupted"), FErr("Io")}

\* Variant: set_head is left out of the genesis settlement.
GenesisSettlement_NoSetHead(g) ==
    [NewSettlement EXCEPT !.blocks = (g :> BlockData(None, 0, <<>>, TRUE)),
                          !.canon = (0 :> g),
                          !.genesis = Some(g)]

\* insert_block(genesis, block, state, 0, Vec::new(), true);
\* insert_canon_depth_mapping(0, genesis); set_genesis(genesis); set_head(genesis)
GenesisSettlement(g) ==
    [NewSettlement EXCEPT !.blocks = (g :> BlockData(None, 0, <<>>, TRUE)),
                          !.canon = (0 :> g),
                          !.genesis = Some(g),
                          !.head = Some(g)]

Backend(head_value, genesis_value) == [head |-> head_value, genesis |-> genesis_value]

\* What a call that opens the store leaves: the store, the value returned
\* (with the backend if Ok), whether f was called
Opening(store, returned, backend, f_called) ==
    [store |-> store, ret |-> returned, backend |-> backend, f_called |-> f_called]

open_or_create(store, f, io_ok) ==
    LET head_read == FetchHead(store)
        genesis_read == FetchGenesis(store)
    IN  IF head_read # None /\ genesis_read # None
        THEN Opening(store, Returned("Ok", "-"), Some(Backend(head_read[1], genesis_read[1])), FALSE)
        ELSE IF head_read = None /\ genesis_read = None
        THEN IF f.tag = "Err"
             THEN Opening(store, Returned("Err", f.err), None, TRUE)
             ELSE IF f.block.parent_id # None
             THEN Opening(store, Returned("Panic", "-"), None, TRUE)
             ELSE LET committed == SettlementCommit(store, GenesisSettlement(f.block.id), io_ok)
                  IN  IF committed.tag = "Err"
                      THEN Opening(store, Returned("Err", "Io"), None, TRUE)
                      ELSE Opening(committed.db, Returned("Ok", "-"),
                                   Some(Backend(f.block.id, f.block.id)), TRUE)
        ELSE Opening(store, Returned("Err", "Corrupted"), None, FALSE)

\* Variant: the backend is returned whether or not the closure ran.
new_with_genesis_IgnoresCreated(store, block, io_ok) ==
    open_or_create(store, FOk(block), io_ok)

\* created is set by the closure, so it is true exactly if f was called
new_with_genesis(store, block, io_ok) ==
    LET o == open_or_create(store, FOk(block), io_ok)
        created == o.f_called
    IN  IF o.ret.tag # "Ok" THEN o
        ELSE IF ~created THEN Opening(o.store, Returned("Err", "Corrupted"), None, o.f_called)
        ELSE o

from_existing(store, io_ok) == open_or_create(store, FErr("Corrupted"), io_ok)

\* The stores a chain leaves behind: created from a genesis block, then
\* possibly one block imported
CreatedDb(g) == SettlementCommit(EmptyDb, GenesisSettlement(g), TRUE).db

ChainDbs(g) ==
    {CreatedDb(g)} \cup
    { SettlementCommit(CreatedDb(g), Settle(CreatedDb(g), op).settlement, TRUE).db :
         op \in {o \in Operations : o.parent = g /\ Settle(CreatedDb(g), o).tag = "Ok"} }

\* Stores with only one of head and genesis recorded (damaged outside the program)
DamagedDbs(g) ==
    { [CreatedDb(g) EXCEPT !.head = None], [CreatedDb(g) EXCEPT !.genesis = None] }

InitialStores ==
    {EmptyDb} \cup UNION {ChainDbs(g) \cup DamagedDbs(g) : g \in BlockIds}

NoF == [tag |-> "none"]

Opened(n, call, f, returned, f_called, backend) ==
    [n |-> n, call |-> call, f |-> f, ret |-> returned, f_called |-> f_called, backend |-> backend]

InitOpen ==
    /\ FfgOff
    /\ vote = Off
    /\ codec = Off /\ hdr = Off /\ enm = Off
    /\ head = Off /\ genesis = Off
    /\ head_lock = Off /\ commits = Off /\ n_commits = Off /\ reported_head = Off
    /\ db \in InitialStores
    /\ opened = Opened(0, "none", NoF, Returned("None", "-"), FALSE, None)

\* The store after a call, and the record of the call with the backend returned
AfterOpening(call, f, out) ==
    /\ db' = out.store
    /\ opened' = Opened(opened.n + 1, call, f, out.ret, out.f_called, out.backend)

\* RocksBackend::open_or_create(path, f)
OpenOrCreate ==
    /\ opened.n < MaxOpens
    /\ \E f \in FResults, io_ok \in BOOLEAN :
       \E out \in {open_or_create(db, f, io_ok)} :
          AfterOpening("open_or_create", f, out)

\* RocksBackend::new_with_genesis(path, block, state)
NewWithGenesis ==
    /\ opened.n < MaxOpens
    /\ \E g \in BlockIds, io_ok \in BOOLEAN :
       \E out \in {new_with_genesis(db, Block(g, None), io_ok)} :
          AfterOpening("new_with_genesis", FOk(Block(g, None)), out)

\* RocksBackend::from_existing(path)
FromExisting ==
    /\ opened.n < MaxOpens
    /\ \E io_ok \in BOOLEAN :
       \E out \in {from_existing(db, io_ok)} :
          AfterOpening("from_existing", FErr("Corrupted"), out)

NextOpen ==
    /\ \/ OpenOrCreate
       \/ NewWithGenesis
       \/ FromExisting
    /\ UNCHANGED <<ffg_vars, vote, codec_vars, head, genesis, head_lock, commits, n_commits, reported_head>>

SpecOpen == InitOpen /\ [][NextOpen]_vars

Initialised(store) == store.head # None /\ store.genesis # None
Uninitialised(store) == store.head = None /\ store.genesis = None

C25_CreatedStore ==
    [][opened'.n = opened.n + 1 =>
          /\ (opened'.ret.tag = "Ok" /\ opened'.f_called) =>
                LET g == opened'.f.block.id
                    reopened == from_existing(db', TRUE)
                IN  /\ opened'.backend # None
                    /\ opened'.backend[1].head = g
                    /\ opened'.backend[1].genesis = g
                    /\ DOMAIN db'.blocks = {g}
                    /\ db'.blocks[g].depth = 0
                    /\ db'.blocks[g].children = <<>>
                    /\ db'.blocks[g].is_canon
                    /\ LookupCanonDepth(db', 0) = Some(g)
                    /\ reopened.ret.tag = "Ok"
                    /\ reopened.backend = Some(Backend(g, g))
                    /\ reopened.store = db'
          /\ (Uninitialised(db) /\ opened'.f.tag = "Ok" /\ opened'.f.block.parent_id # None) =>
                /\ opened'.ret.tag = "Panic"
                /\ db' = db]_vars

\* A store was created from block 2 and then opened again with from_existing.
C25_Witness ==
    /\ opened.call = "from_existing"
    /\ opened.n >= 2
    /\ opened.ret.tag = "Ok"
    /\ opened.backend = Some(Backend(2, 2))
    /\ DOMAIN db.blocks = {2}
    /\ LookupCanonDepth(db, 0) = Some(2)

(***************************************************************************)
(* Packed boolean vectors (utils/ssz/src/fixed.rs):                        *)
(* Compact<GenericArray<bool, L>> and Compact<VecArray<bool, L>>.          *)
(* A byte is a number in 0..255; a vector is a sequence of BOOLEAN whose   *)
(* index 1 is element 0 of the code.                                       *)
(***************************************************************************)
MaxBits == 10       \* longest vector length L
MaxBytes == 2       \* longest byte string given to the decoder

BoolVecKinds == {"GenericArray", "VecArray"}
SampleBytes == {0, 1, 15, 128, 255}

\* bit k of a byte, counted from the least significant bit
BitAt(byte, k) == (byte \div (2 ^ k)) % 2

\* a | b on u8
RECURSIVE OrU8From(_, _, _)
OrU8From(a, b, k) ==
    IF k > 7 THEN 0
    ELSE (IF BitAt(a, k) = 1 \/ BitAt(b, k) = 1 THEN 2 ^ k ELSE 0) + OrU8From(a, b, k + 1)

OrU8(a, b) == OrU8From(a, b, 0)

\* a & b on u8
RECURSIVE AndU8From(_, _, _)
AndU8From(a, b, k) ==
    IF k > 7 THEN 0
    ELSE (IF BitAt(a, k) = 1 /\ BitAt(b, k) = 1 THEN 2 ^ k ELSE 0) + AndU8From(a, b, k + 1)

AndU8(a, b) == AndU8From(a, b, 0)

\* a << k on u8, k < 8
ShlU8(a, k) == (a * (2 ^ k)) % 256

\* bool as u8
BoolAsU8(b) == IF b THEN 1 ELSE 0

\* type Size = Div<Add<L, U7>, U8>
CodecSize(L) == (L + 7) \div 8

\* bytes.resize(n, 0u8) on an empty Vec
Zeroed(n) == [j \in 1..n |-> 0]

\* Variant: the bit goes to position 7 - (i % 8), most significant bit first.
PackBit_MsbFirst(bytes, v, i) ==
    [bytes EXCEPT ![(i \div 8) + 1] = OrU8(@, ShlU8(BoolAsU8(v[i + 1]), 7 - (i % 8)))]

\* bytes[i / 8] |= (self.0[i] as u8) << (i % 8);
PackBit(bytes, v, i) ==
    [bytes EXCEPT ![(i \div 8) + 1] = OrU8(@, ShlU8(BoolAsU8(v[i + 1]), i % 8))]

\* for i in 0..self.0.len() { ... }
RECURSIVE PackFrom(_, _, _)
PackFrom(bytes, v, i) ==
    IF i >= Len(v) THEN bytes ELSE PackFrom(PackBit(bytes, v, i), v, i + 1)

\* Encode for CompactRef<GenericArray<bool, L>>
EncodeGenericArrayBool(v) == PackFrom(Zeroed((Len(v) + 7) \div 8), v, 0)

\* Encode for CompactRef<VecArray<bool, L>>
EncodeVecArrayBool(v) == PackFrom(Zeroed((Len(v) + 7) \div 8), v, 0)

EncodeBoolVec(kind, v) ==
    IF kind = "GenericArray" THEN EncodeGenericArrayBool(v) ELSE EncodeVecArrayBool(v)

\* Variant: every bit of a byte is read from the byte's bit 0.
UnpackBit_LowBitOnly(value, i) == AndU8(value[(i \div 8) + 1], 1) # 0

\* value[i / 8] & (1 << (i % 8)) != 0
UnpackBit(value, i) == AndU8(value[(i \div 8) + 1], ShlU8(1, i % 8)) # 0

DecodedOk(v) == [tag |-> "Ok", value |-> v]
DecodedErr(e) == [tag |-> e, value |-> <<>>]
NotDecoded == [tag |-> "-", value |-> <<>>]

\* for i in 0..len { if i / 8 >= value.len() { return Err(IncorrectSize) } ret[i] = ...; }
RECURSIVE UnpackFrom(_, _, _, _)
UnpackFrom(value, len, decoded, i) ==
    IF i >= len THEN DecodedOk(decoded)
    ELSE IF i \div 8 >= Len(value) THEN DecodedErr("IncorrectSize")
    ELSE UnpackFrom(value, len, [decoded EXCEPT ![i + 1] = UnpackBit(value, i)], i + 1)

\* Decode for Compact<GenericArray<bool, L>>; GenericArray::default() is all false
DecodeGenericArrayBool(L, value) == UnpackFrom(value, L, [j \in 1..L |-> FALSE], 0)

\* Decode for Compact<VecArray<bool, L>>; VecArray::default() is all false
DecodeVecArrayBool(L, value) == UnpackFrom(value, L, [j \in 1..L |-> FALSE], 0)

DecodeBoolVec(kind, L, value) ==
    IF kind = "GenericArray" THEN DecodeGenericArrayBool(L, value)
    ELSE DecodeVecArrayBool(L, value)

SeqsUpTo(S, n) == UNION {[1..k -> S] : k \in 0..n}

InitBits ==
    /\ FfgOff
    /\ vote = Off
    /\ StoreOff
    /\ hdr = Off
    /\ enm = Off
    /\ \E kind \in BoolVecKinds, L \in 0..MaxBits :
          \/ \E v \in [1..L -> BOOLEAN] :
                codec = [stage |-> "value", kind |-> kind, L |-> L, v |-> v,
                         bytes |-> <<>>, res |-> NotDecoded, out |-> <<>>]
          \/ \E b \in SeqsUpTo(SampleBytes, MaxBytes) :
                codec = [stage |-> "bytes", kind |-> kind, L |-> L, v |-> <<>>,
                         bytes |-> b, res |-> NotDecoded, out |-> <<>>]

\* encode(v)
EncodeValue ==
    /\ codec.stage = "value"
    /\ codec' = [codec EXCEPT !.stage = "encoded",
                              !.bytes = EncodeBoolVec(codec.kind, codec.v)]

\* decode(encode(v))
DecodeEncoded ==
    /\ codec.stage = "encoded"
    /\ codec' = [codec EXCEPT !.stage = "roundtrip",
                              !.res = DecodeBoolVec(codec.kind, codec.L, codec.bytes)]

\* decode(b)
DecodeBytes ==
    /\ codec.stage = "bytes"
    /\ codec' = [codec EXCEPT !.stage = "decoded",
                              !.res = DecodeBoolVec(codec.kind, codec.L, codec.bytes)]

\* encode(decode(b)), when decode(b) is Ok
EncodeDecoded ==
    /\ codec.stage = "decoded"
    /\ codec.res.tag = "Ok"
    /\ codec' = [codec EXCEPT !.stage = "reencoded",
                              !.out = EncodeBoolVec(codec.kind, codec.res.value)]

NextBits ==
    /\ \/ EncodeValue
       \/ DecodeEncoded
       \/ DecodeBytes
       \/ EncodeDecoded
    /\ UNCHANGED <<ffg_vars, vote, store_vars, hdr, enm>>

SpecBits == InitBits /\ [][NextBits]_vars

\* C14: whatever byte string the packed boolean vector decoder accepts,
\* encoding the decoded vector gives that byte string back.
C14_EncodeOfDecodeIsInput ==
    codec.stage = "reencoded" => codec.out = codec.bytes

\* C15: decoding the encoding of a vector of length L succeeds and returns
\* the vector.
C15_DecodeOfEncodeIsValue ==
    codec.stage = "roundtrip" => codec.res = DecodedOk(codec.v)

\* A two-byte vector with set and clear bits in both bytes went round.
C15_Witness ==
    /\ codec.stage = "roundtrip"
    /\ codec.L = 10
    /\ codec.v = <<FALSE, TRUE, TRUE, FALSE, FALSE, FALSE, FALSE, TRUE, FALSE, TRUE>>

\* C16: the encoding of N bits has ceil(N/8) bytes, which is the declared
\* Size (N + 7) / 8; bit i of the vector is bit (i mod 8), from the least
\* significant, of byte (i div 8); the bits at or above N are 0.
C16_LsbFirstPacking ==
    codec.stage = "encoded" =>
        LET N == codec.L
            n_bytes == Len(codec.bytes)
        IN  /\ 8 * n_bytes >= N
            /\ 8 * n_bytes < N + 8
            /\ n_bytes = CodecSize(N)
            /\ \A i \in 0..(N - 1) :
                  BitAt(codec.bytes[(i \div 8) + 1], i % 8) = BoolAsU8(codec.v[i + 1])
            /\ \A i \in N..(8 * n_bytes - 1) :
                  BitAt(codec.bytes[(i \div 8) + 1], i % 8) = 0

\* Nine bits, the last one set: a second byte with seven padding bits.
C16_Witness ==
    /\ codec.stage = "encoded"
    /\ codec.L = 9
    /\ codec.v[9]
    /\ codec.v[2]
    /\ ~codec.v[1]
    /\ codec.bytes = <<2, 1>>

(***************************************************************************)
(* BeaconBlockHeader (beacon/src/block.rs): the header made from a block   *)
(* and its encoding.  An H256 is a sequence of 32 bytes, a Signature one   *)
(* of 96 bytes, slot a u64 in limbs as above.  The derived container       *)
(* encoder and the tree hash are in other crates.                          *)
(***************************************************************************)
RECURSIVE Repeat(_, _)
Repeat(x, n) == IF n = 0 THEN <<>> ELSE <<x>> \o Repeat(x, n - 1)

\* H256::default()
H256Default == Repeat(0, 32)

\* Signature::default()
SignatureDefault == Repeat(0, 96)

\* H256::from_str("bdac85b271ed09d9a47a161395cd15d85eca25d9e3dd9e458c8cc08c80180273")
BasicStateRoot ==
    << 189, 172, 133, 178, 113, 237, 9, 217, 164, 122, 22, 19, 149, 205, 21, 216,
       94, 202, 37, 217, 227, 221, 158, 69, 140, 140, 192, 140, 128, 24, 2, 115 >>

\* H256::from_str("13f2001ff0ee4a528b3c43f63d70a997aefca990ed8eada2223ee6ec3807f7cc")
BasicBlockBodyRoot ==
    << 19, 242, 0, 31, 240, 238, 74, 82, 139, 60, 67, 246, 61, 112, 169, 151,
       174, 252, 169, 144, 237, 142, 173, 162, 34, 62, 230, 236, 56, 7, 247, 204 >>

SampleSlots == { U64(0, 0, 0, 0), U64(0, 0, 1, 0), U64(513, 0, 0, 1027) }
SampleRoots == { H256Default, BasicStateRoot, BasicBlockBodyRoot }
SampleSignatures == { SignatureDefault, [j \in 1..96 |-> j] }
SampleBodies == { "empty", "one_deposit" }

\* Hashable::<H>::hash(&body): some H256 that depends on the body only
TreeHashOfBody(body) == [j \in 1..32 |-> IF body = "empty" THEN 17 ELSE 34]

BeaconBlock(slot, previous_block_root, state_root, body, signature) ==
    [slot |-> slot, previous_block_root |-> previous_block_root, state_root |-> state_root, body |-> body, signature |-> signature]

BeaconBlockHeader(slot, previous_block_root, state_root, block_body_root, signature) ==
    [slot |-> slot, previous_block_root |-> previous_block_root, state_root |-> state_root, block_body_root |-> block_body_root, signature |-> signature]

NoBlock == [stage |-> "none"]

\* Variant: state root and signature are copied from the block.
with_state_root_no_signature_CopiesBlock(block, state_root) ==
    BeaconBlockHeader(block.slot, block.previous_block_root, block.state_root,
                      TreeHashOfBody(block.body), block.signature)

with_state_root_no_signature(block, state_root) ==
    BeaconBlockHeader(block.slot, block.previous_block_root, state_root,
                      TreeHashOfBody(block.body), SignatureDefault)

\* the header of tests::empty_header_serialization
EmptyHeader ==
    BeaconBlockHeader(U64(0, 0, 0, 0), H256Default, H256Default, H256Default, SignatureDefault)

\* the bytes tests::empty_header_serialization expects
EmptyHeaderEncoding ==
    << 0, 0, 0, 0, 0, 0, 0, 0, 0, 0, 0, 0, 0, 0, 0, 0,
       0, 0, 0, 0, 0, 0, 0, 0, 0, 0, 0, 0, 0, 0, 0, 0,
       0, 0, 0, 0, 0, 0, 0, 0, 0, 0, 0, 0, 0, 0, 0, 0,
       0, 0, 0, 0, 0, 0, 0, 0, 0, 0, 0, 0, 0, 0, 0, 0,
       0, 0, 0, 0, 0, 0, 0, 0, 0, 0, 0, 0, 0, 0, 0, 0,
       0, 0, 0, 0, 0, 0, 0, 0, 0, 0, 0, 0, 0, 0, 0, 0,
       0, 0, 0, 0, 0, 0, 0, 0, 0, 0, 0, 0, 0, 0, 0, 0,
       0, 0, 0, 0, 0, 0, 0, 0, 0, 0, 0, 0, 0, 0, 0, 0,
       0, 0, 0, 0, 0, 0, 0, 0, 0, 0, 0, 0, 0, 0, 0, 0,
       0, 0, 0, 0, 0, 0, 0, 0, 0, 0, 0, 0, 0, 0, 0, 0,
       0, 0, 0, 0, 0, 0, 0, 0, 0, 0, 0, 0, 0, 0, 0, 0,
       0, 0, 0, 0, 0, 0, 0, 0, 0, 0, 0, 0, 0, 0, 0, 0,
       0, 0, 0, 0, 0, 0, 0, 0 >>

\* the header of tests::basic_header_serialization; slot is 4294967296
BasicHeader ==
    BeaconBlockHeader(U64(0, 0, 1, 0), H256Default, BasicStateRoot, BasicBlockBodyRoot, SignatureDefault)

\* the bytes tests::basic_header_serialization expects
BasicHeaderEncoding ==
    << 0, 0, 0, 0, 1, 0, 0, 0, 0, 0, 0, 0, 0, 0, 0, 0,
       0, 0, 0, 0, 0, 0, 0, 0, 0, 0, 0, 0, 0, 0, 0, 0,
       0, 0, 0, 0, 0, 0, 0, 0, 189, 172, 133, 178, 113, 237, 9, 217,
       164, 122, 22, 19, 149, 205, 21, 216, 94, 202, 37, 217, 227, 221, 158, 69,
       140, 140, 192, 140, 128, 24, 2, 115, 19, 242, 0, 31, 240, 238, 74, 82,
       139, 60, 67, 246, 61, 112, 169, 151, 174, 252, 169, 144, 237, 142, 173, 162,
       34, 62, 230, 236, 56, 7, 247, 204, 0, 0, 0, 0, 0, 0, 0, 0,
       0, 0, 0, 0, 0, 0, 0, 0, 0, 0, 0, 0, 0, 0, 0, 0,
       0, 0, 0, 0, 0, 0, 0, 0, 0, 0, 0, 0, 0, 0, 0, 0,
       0, 0, 0, 0, 0, 0, 0, 0, 0, 0, 0, 0, 0, 0, 0, 0,
       0, 0, 0, 0, 0, 0, 0, 0, 0, 0, 0, 0, 0, 0, 0, 0,
       0, 0, 0, 0, 0, 0, 0, 0, 0, 0, 0, 0, 0, 0, 0, 0,
       0, 0, 0, 0, 0, 0, 0, 0 >>

RECURSIVE Flatten(_)
Flatten(seqs) == IF seqs = <<>> THEN <<>> ELSE Head(seqs) \o Flatten(Tail(seqs))

\* u64: 8 bytes, little-endian
EncodeU64(x) ==
    Flatten([k \in 1..4 |-> <<x[k] % 256, x[k] \div 256>>])

\* encode_list of u8 elements: each element is its one byte
EncodeListU8(elems) == Flatten([k \in 1..Len(elems) |-> <<elems[k]>>])

\* Encode for H256: CompactRef(GenericArray::<u8, U32>::from_slice(&self.0[..])).encode()
EncodeH256(h) == EncodeListU8(h)

\* Signature: its 96 bytes
EncodeSignature(sig) == EncodeListU8(sig)

\* Variant: state_root is written before previous_block_root.
EncodeBeaconBlockHeader_StateRootFirst(h) ==
    EncodeU64(h.slot) \o EncodeH256(h.state_root) \o EncodeH256(h.previous_block_root)
        \o EncodeH256(h.block_body_root) \o EncodeSignature(h.signature)

\* derive(Ssz) on BeaconBlockHeader: the fields, all of fixed size, in declaration order
EncodeBeaconBlockHeader(h) ==
    EncodeU64(h.slot) \o EncodeH256(h.previous_block_root) \o EncodeH256(h.state_root)
        \o EncodeH256(h.block_body_root) \o EncodeSignature(h.signature)

InitHeader ==
    /\ FfgOff
    /\ vote = Off
    /\ StoreOff
    /\ codec = Off
    /\ enm = Off
    /\ \/ \E slot \in SampleSlots, previous_block_root \in SampleRoots, state_root \in SampleRoots,
             body \in SampleBodies, signature \in SampleSignatures, supplied \in SampleRoots :
             hdr = [stage |-> "block",
                    block |-> BeaconBlock(slot, previous_block_root, state_root, body, signature),
                    supplied |-> supplied, header |-> EmptyHeader, bytes |-> <<>>]
       \/ \E slot \in SampleSlots, previous_block_root \in SampleRoots, state_root \in SampleRoots,
             block_body_root \in SampleRoots, signature \in SampleSignatures :
             hdr = [stage |-> "header", block |-> NoBlock, supplied |-> H256Default,
                    header |-> BeaconBlockHeader(slot, previous_block_root, state_root,
                                                 block_body_root, signature),
                    bytes |-> <<>>]

\* BeaconBlockHeader::with_state_root_no_signature(&block, state_root)
WithStateRootNoSignature ==
    /\ hdr.stage = "block"
    /\ hdr' = [hdr EXCEPT !.stage = "header",
                          !.header = with_state_root_no_signature(hdr.block, hdr.supplied)]

\* header.encode()
EncodeHeader ==
    /\ hdr.stage = "header"
    /\ hdr' = [hdr EXCEPT !.stage = "encoded", !.bytes = EncodeBeaconBlockHeader(hdr.header)]

NextHeader ==
    /\ \/ WithStateRootNoSignature
       \/ EncodeHeader
    /\ UNCHANGED <<ffg_vars, vote, store_vars, codec, enm>>

SpecHeader == InitHeader /\ [][NextHeader]_vars

\* C17: a header encodes to exactly 200 bytes, without a length prefix:
\* slot as 8 little-endian bytes, then previous_block_root, state_root and
\* block_body_root (32 bytes each), then signature (96 bytes); the headers
\* of the two serialization tests encode to the bytes the tests expect, the
\* all-zero header to 200 zero bytes.
C17_HeaderEncoding ==
    hdr.stage = "encoded" =>
        LET h == hdr.header
            b == hdr.bytes
        IN  /\ Len(b) = 200
            /\ \A j \in 0..7 :
                  b[j + 1] = IF j % 2 = 0 THEN h.slot[(j \div 2) + 1] % 256
                             ELSE h.slot[(j \div 2) + 1] \div 256
            /\ SubSeq(b, 9, 40) = h.previous_block_root
            /\ SubSeq(b, 41, 72) = h.state_root
            /\ SubSeq(b, 73, 104) = h.block_body_root
            /\ SubSeq(b, 105, 200) = h.signature
            /\ h = EmptyHeader => b = EmptyHeaderEncoding /\ \A j \in 1..200 : b[j] = 0
            /\ h = BasicHeader => b = BasicHeaderEncoding

\* The header of basic_header_serialization has been encoded.
C17_Witness ==
    /\ hdr.stage = "encoded"
    /\ hdr.header = BasicHeader
    /\ hdr.bytes[5] = 1

\* C18: the header made from a block b and a state root r has b's slot and
\* previous_block_root, r as state_root, the tree hash of b.body as
\* block_body_root and 96 zero bytes as signature; b stays as it was.
C18_HeaderFromBlock ==
    [][(hdr.stage = "block" /\ hdr'.stage = "header") =>
          /\ hdr'.header.slot = hdr.block.slot
          /\ hdr'.header.previous_block_root = hdr.block.previous_block_root
          /\ hdr'.header.state_root = hdr.supplied
          /\ hdr'.header.block_body_root = TreeHashOfBody(hdr.block.body)
          /\ hdr'.header.signature = [j \in 1..96 |-> 0]
          /\ hdr'.block = hdr.block]_vars

\* A header made from a signed block whose own state root is not the supplied one.
C18_Witness ==
    /\ hdr.stage = "header"
    /\ hdr.block # NoBlock
    /\ hdr.block.state_root = BasicBlockBodyRoot
    /\ hdr.supplied = BasicStateRoot
    /\ hdr.block.signature # SignatureDefault
    /\ hdr.header.state_root = BasicStateRoot

(***************************************************************************)
(* Derived enum codec (util/ssz-derive/tests/mod.rs): the enums the tests  *)
(* declare, and the encoder and decoder the derive macros generate for     *)
(* them.  The macros are in another file; the tests fix what they do for   *)
(* these enums.                                                            *)
(***************************************************************************)
Variant(name, index, fields) == [name |-> name, index |-> index, fields |-> fields]

\* enum EnumType { #[ssz_codec(index = "15")] A, B(u32, u64), C { a: u32, b: u64 } }
EnumType ==
    << Variant("A", Some(15), <<>>), Variant("B", None, <<"u32", "u64">>), Variant("C", None, <<"u32", "u64">>) >>

\* enum EnumWithDiscriminant { A = 1, B = 15, C = 255 }
EnumWithDiscriminant ==
    << Variant("A", Some(1), <<>>), Variant("B", Some(15), <<>>), Variant("C", Some(255), <<>>) >>

EnumDecls == [EnumType |-> EnumType, EnumWithDiscriminant |-> EnumWithDiscriminant]

SampleU32 == {1, 258, 16909060}
SampleU64 == { U64(2, 0, 0, 0), U64(1541, 0, 1027, 513) }
EnumSampleBytes == {0, 1, 2, 15, 255}

FieldSamples(type) == IF type = "u32" THEN SampleU32 ELSE SampleU64

EnumValue(pos, fields) == [pos |-> pos, fields |-> fields]

\* every value of the declared enum with fields from the samples
EnumValues(decl) ==
    UNION {
        IF decl[pos].fields = <<>> THEN { EnumValue(pos, <<>>) }
        ELSE { EnumValue(pos, <<x, y>>) : x \in FieldSamples(decl[pos].fields[1]),
                                          y \in FieldSamples(decl[pos].fields[2]) }
        : pos \in 1..Len(decl) }

\* Variant: the index byte is the position, whatever the declaration says.
IndexOf_PositionOnly(decl, pos) == pos - 1

\* the index byte of a variant: its explicit index or discriminant, else its position
IndexOf(decl, pos) ==
    IF decl[pos].index # None THEN decl[pos].index[1] ELSE pos - 1

\* a u32 field as the tests show it: 1 -> \0\0\0\x01
EncodeFieldU32(x) ==
    << (x \div 16777216) % 256, (x \div 65536) % 256, (x \div 256) % 256, x % 256 >>

\* a u64 field as the tests show it: 2 -> \0\0\0\0\0\0\0\x02
EncodeFieldU64(x) ==
    Flatten([k \in 1..4 |-> <<x[5 - k] \div 256, x[5 - k] % 256>>])

EncodeField(type, x) == IF type = "u32" THEN EncodeFieldU32(x) ELSE EncodeFieldU64(x)

FieldWidth(type) == IF type = "u32" THEN 4 ELSE 8

DecodeFieldU32(b) == b[1] * 16777216 + b[2] * 65536 + b[3] * 256 + b[4]

DecodeFieldU64(b) == [k \in 1..4 |-> b[9 - 2 * k] * 256 + b[10 - 2 * k]]

DecodeField(type, b) == IF type = "u32" THEN DecodeFieldU32(b) ELSE DecodeFieldU64(b)

\* SszEncode for an enum: the index byte, then the fields in order
EncodeEnum(decl, value) ==
    <<IndexOf(decl, value.pos)>>
        \o Flatten([k \in 1..Len(value.fields) |->
                        EncodeField(decl[value.pos].fields[k], value.fields[k])])

\* the fields of a variant read one after the other from the input
RECURSIVE DecodeFields(_, _, _)
DecodeFields(types, input, fields) ==
    IF types = <<>> THEN Some(fields)
    ELSE IF Len(input) < FieldWidth(Head(types)) THEN None
    ELSE DecodeFields(Tail(types),
                      SubSeq(input, FieldWidth(Head(types)) + 1, Len(input)),
                      Append(fields, DecodeField(Head(types), SubSeq(input, 1, FieldWidth(Head(types))))))

\* SszDecode for an enum: the variant whose index is the first byte, then its fields
DecodeEnum(decl, input) ==
    IF input = <<>> THEN None
    ELSE LET matching == {pos \in 1..Len(decl) : IndexOf(decl, pos) = input[1]}
         IN  IF matching = {} THEN None
             ELSE LET pos == CHOOSE p \in matching : TRUE
                      fields == DecodeFields(decl[pos].fields, Tail(input), <<>>)
                  IN  IF fields = None THEN None ELSE Some(EnumValue(pos, fields[1]))

\* the encodings the tests assert, by enum and variant position
TestedIndex ==
    [EnumType |-> <<15, 1, 2>>, EnumWithDiscriminant |-> <<1, 15, 255>>]

\* EnumType::B(1, 2) and the bytes should_work_for_simple_enum expects for it
TestedB == EnumValue(2, <<1, U64(2, 0, 0, 0)>>)
TestedBEncoding == <<1, 0, 0, 0, 1, 0, 0, 0, 0, 0, 0, 0, 2>>

\* EnumType::C { a: 1, b: 2 } and the bytes expected for it
TestedC == EnumValue(3, <<1, U64(2, 0, 0, 0)>>)
TestedCEncoding == <<2, 0, 0, 0, 1, 0, 0, 0, 0, 0, 0, 0, 2>>

InitEnum ==
    /\ FfgOff
    /\ vote = Off
    /\ StoreOff
    /\ codec = Off
    /\ hdr = Off
    /\ \E type \in DOMAIN EnumDecls :
          \/ \E value \in EnumValues(EnumDecls[type]) :
                enm = [stage |-> "value", type |-> type, value |-> value,
                       bytes |-> <<>>, res |-> None]
          \/ \E b \in SeqsUpTo(EnumSampleBytes, MaxBytes) \cup {TestedBEncoding, TestedCEncoding} :
                enm = [stage |-> "bytes", type |-> type, value |-> EnumValue(0, <<>>),
                       bytes |-> b, res |-> None]

\* value.using_encoded(..)
EncodeEnumValue ==
    /\ enm.stage = "value"
    /\ enm' = [enm EXCEPT !.stage = "encoded",
                          !.bytes = EncodeEnum(EnumDecls[enm.type], enm.value)]

\* decode of what encode gave
DecodeEnumEncoded ==
    /\ enm.stage = "encoded"
    /\ enm' = [enm EXCEPT !.stage = "roundtrip",
                          !.res = DecodeEnum(EnumDecls[enm.type], enm.bytes)]

\* decode of any input
DecodeEnumBytes ==
    /\ enm.stage = "bytes"
    /\ enm' = [enm EXCEPT !.stage = "decoded",
                          !.res = DecodeEnum(EnumDecls[enm.type], enm.bytes)]

NextEnum ==
    /\ \/ EncodeEnumValue
       \/ DecodeEnumEncoded
       \/ DecodeEnumBytes
    /\ UNCHANGED <<ffg_vars, vote, store_vars, codec, hdr>>

SpecEnum == InitEnum /\ [][NextEnum]_vars

\* C19: a derived enum encodes as one byte, the variant's index (explicit
\* index or discriminant where declared, else the position), followed by
\* its fields in order; decoding that gives the value back; decoding input
\* whose first byte is no declared index fails.
C19_EnumCodec ==
    /\ enm.stage \in {"encoded", "roundtrip"} =>
          /\ enm.bytes[1] = TestedIndex[enm.type][enm.value.pos]
          /\ Len(enm.bytes) = 1 + 12 * (IF enm.value.fields = <<>> THEN 0 ELSE 1)
          /\ enm.value.fields # <<>> =>
                /\ DecodeFieldU32(SubSeq(enm.bytes, 2, 5)) = enm.value.fields[1]
                /\ DecodeFieldU64(SubSeq(enm.bytes, 6, 13)) = enm.value.fields[2]
          /\ (enm.type = "EnumType" /\ enm.value = TestedB) => enm.bytes = TestedBEncoding
          /\ (enm.type = "EnumType" /\ enm.value = TestedC) => enm.bytes = TestedCEncoding
    /\ enm.stage = "roundtrip" => enm.res = Some(enm.value)
    /\ enm.stage = "decoded" =>
          /\ (enm.bytes = <<>> \/ \A pos \in 1..3 : TestedIndex[enm.type][pos] # enm.bytes[1])
                => enm.res = None
          /\ (enm.type = "EnumType" /\ enm.bytes = TestedBEncoding) => enm.res = Some(TestedB)

\* EnumType::B(1, 2) went through encode and decode.
C19_Witness ==
    /\ enm.stage = "roundtrip"
    /\ enm.type = "EnumType"
    /\ enm.value = TestedB
    /\ enm.bytes = TestedBEncoding

====
